---------------------------- MODULE Spec2Model ----------------------------
(***************************************************************************)
(* A model of client.py of GreeControl: the frame layer of DeviceSocket    *)
(* (SendQuery, CalcChecksum, SetChecksum, Read) and the state codec of     *)
(* DeviceConfig (Decode, Encode, EncodeRemoteTempUpdate and helpers).      *)
(*                                                                         *)
(* Conventions.                                                            *)
(*  - A Python list/bytes buffer is a function with domain 0..n-1, so that *)
(*    buf[i] reads as in the source.                                       *)
(*  - An Enum member is the string of its name; the record of the enum     *)
(*    maps each name to its .value.  Enum(v) construction raises           *)
(*    ValueError when no member has value v.                               *)
(*  - None is the string "None" where the other values are strings, and    *)
(*    is told by the variable ret where the other values are buffers.      *)
(*  - temp and custom_sleep_curve hold temperatures in HALF DEGREES (the   *)
(*    source's float 16.5 is 33 here), since the source only ever adds 0.5.*)
(*  - A Python bool used in arithmetic (x << n) goes through B2I.          *)
(***************************************************************************)
EXTENDS Integers, Sequences, FiniteSets, TLC

VARIABLES
    cfg,      \* the canonical DeviceConfig snapshot (client.py: cfg)
    buf,      \* the buffer handed to the last Decode
    op,       \* the last operation that ran
    latch,    \* update_on_off_timers of the last Encode
    ret,      \* what the last operation returned: "None", "frame", "True",
              \* "False", "ValueError", "TypeError", "packet", "none"
    out,      \* the frame the last operation produced (<<>> when none)
    echo,     \* a second DeviceConfig: the last command frame decoded back
              \* (InitConfig until a frame is decoded back, and again once the
              \* snapshot it came from is replaced by the next Decode)
    pkt,      \* bytes waiting in the socket for Read (header + body)
    orig,     \* pkt as the sender wrapped it, before any corruption
    arg,      \* arguments of the last DecodeTemp / EncodeTemp call
    res,      \* what that call returned
    pc,       \* where the polling loop stands: "query", "poll", "crashed"
    sent,     \* the main loop's flag: the test command has been sent
    ncmd      \* command frames written to the socket so far

vars == <<cfg, buf, op, latch, ret, out, echo, pkt, orig, arg, res, pc, sent, ncmd>>

---------------------------------------------------------------------------
(* Integer helpers: Python's int(), >>, <<, &, | on (possibly negative)    *)
(* integers.                                                               *)

Pow2(n) == 2 ^ n

\* Python int(x) of the rational a/b (b > 0): truncation toward zero.
TruncDiv(a, b) == IF a >= 0 THEN a \div b ELSE -((-a) \div b)

Shl(val, n) == val * Pow2(n)

Shr(val, n) == val \div Pow2(n)

RECURSIVE BitAnd(_, _)
BitAnd(a, b) ==
    IF a = 0 \/ b = 0 THEN 0
    ELSE IF a = -1 THEN b
    ELSE IF b = -1 THEN a
    ELSE ((a % 2) * (b % 2)) + 2 * BitAnd(a \div 2, b \div 2)

RECURSIVE BitOr(_, _)
BitOr(a, b) ==
    IF a = 0 THEN b
    ELSE IF b = 0 THEN a
    ELSE IF a = -1 \/ b = -1 THEN -1
    ELSE (IF (a % 2) + (b % 2) > 0 THEN 1 ELSE 0) + 2 * BitOr(a \div 2, b \div 2)

B2I(b) == IF b THEN 1 ELSE 0

\* (val >> lsb_pos) & ((1 << n_bits) - 1): the low n_bits of the shifted value.
GetBits(val, lsb_pos, n_bits) == Shr(val, lsb_pos) % Pow2(n_bits)

\* (val & (1 << lsb_pos)) != 0.
GetBit(val, lsb_pos) == Shr(val, lsb_pos) % 2 = 1

BufLen(b) == Cardinality(DOMAIN b)

NoBuf == <<>>

Zeros(n) == [i \in 0..(n - 1) |-> 0]

---------------------------------------------------------------------------
(* The enums.                                                              *)

TempUnits == [UNKNOWN |-> -1, CELSIUS |-> 0, FAHRENHEIT |-> 1]

TempDisplay == [UNKNOWN |-> -1, NONE |-> 0, SETPOINT |-> 1, INDOOR |-> 2, OUTDOOR |-> 3]

DeviceMode ==
    [UNKNOWN |-> -1, AUTO |-> 0, COOL |-> 1, DRY |-> 2, FAN |-> 3, HEAT |-> 4,
     MODE5 |-> 5, MODE6 |-> 6, MODE7 |-> 7]

FanState ==
    [UNKNOWN |-> -1, AUTO |-> 0, LEVEL_1 |-> 1, LEVEL_2 |-> 2, LEVEL_3 |-> 3,
     LEVEL_4 |-> 4, LEVEL_5 |-> 5, TURBO |-> 6, QUIET |-> 7, AUTO_QUIET |-> 8,
     UNKNOWN_QUIET |-> 9]

\* (OTHER is a reserved word of TLA+, hence the explicit function.)
ValveState ==
    ("UNKNOWN" :> -1) @@ ("NONE" :> 0) @@ ("INTAKE" :> 1) @@ ("EXHAUST" :> 2)
        @@ ("OTHER" :> 3)

HumidifyType ==
    [UNKNOWN |-> -1, NONE |-> 0, CONTINUOUS |-> 1, INTELLIGENT |-> 2, LEVEL_40 |-> 3,
     LEVEL_50 |-> 4, LEVEL_60 |-> 5, LEVEL_70 |-> 6]

SleepCurveType ==
    [UNKNOWN |-> -1, NONE |-> 0, EXPERT |-> 1, TRADITIONAL |-> 2, DIY |-> 3,
     SIESTA |-> 128]

HorizontalAirDirection ==
    [UNKNOWN |-> 0, SWINGING |-> 1, LEFT |-> 2, CENTER_LEFT |-> 3, CENTER |-> 4,
     CENTER_RIGHT |-> 5, RIGHT |-> 6]

VerticalAirDirection ==
    [UNKNOWN |-> 0, SWINGING |-> 1, UP |-> 2, CENTER_UP |-> 3, CENTER |-> 4,
     CENTER_DOWN |-> 5, DOWN |-> 6]

\* Enum(v): whether the call returns, and the member it returns.
EnumHas(E, v) == \E m \in DOMAIN E : E[m] = v

EnumOf(E, v) == CHOOSE m \in DOMAIN E : E[m] = v

---------------------------------------------------------------------------
(* DeviceConfig.__init__                                                   *)

InitConfig ==
    [valid |-> FALSE,
     temp |-> -2,
     temp_units |-> "UNKNOWN",
     is_on |-> FALSE,
     mode |-> "UNKNOWN",
     light |-> FALSE,
     purify |-> FALSE,
     temp_display |-> "UNKNOWN",
     eco_mode |-> FALSE,
     fan_state |-> "None",
     fan_speed |-> -1,
     turbo |-> FALSE,
     quiet_type |-> 0,
     x_fan |-> FALSE,
     x_fan_for_heat |-> FALSE,
     intake_exhaust |-> "UNKNOWN",
     fan_speed_low_res |-> 0,
     mode_mystery_bit_3 |-> FALSE,
     mode_mystery_bit_2 |-> FALSE,
     timer_on_off_enable |-> FALSE,
     timer_on_enable |-> FALSE,
     timer_off_enable |-> FALSE,
     minutes_until_on |-> 0,
     minutes_until_off |-> 0,
     clock |-> 0,
     day_of_week |-> 0,
     sleep_curve_clock |-> 0,
     sleep_curve_clock_invalid |-> FALSE,
     on_time |-> 0,
     off_time |-> 0,
     day_of_week_on_mask |-> 0,
     day_of_week_off_mask |-> 0,
     timer_on_use_clock |-> 0,
     timer_off_use_clock |-> 0,
     horizontal_air_direction |-> "UNKNOWN",
     vertical_air_direction |-> "UNKNOWN",
     humidify_type |-> "NONE",
     heat_assist |-> FALSE,
     sleep_curve_type |-> "NONE",
     custom_sleep_curve |-> [i \in 0..7 |-> 0],
     noise_control_enable |-> FALSE,
     noise_control_heating |-> 30,
     noise_control_cooling |-> 30,
     regional_swing_position |-> 0,
     regional_swing_avoid_people |-> FALSE,
     use_remote_temp_sensor |-> FALSE,
     remote_temp_val |-> 0,
     timer_remote_flag |-> FALSE]

---------------------------------------------------------------------------
(* Temperature codec.  Temperatures are in half degrees.                   *)

\* A DecodeTemp without the min(..., 86) of line 429.
DecodeTempUncapped(self, upper, lower) ==
    IF self.temp_units = "CELSIUS"
    THEN 2 * (IF upper + 16 < 30 THEN upper + 16 ELSE 30)
    ELSE IF upper <= 0
    THEN 2 * 61
    ELSE 2 * TruncDiv((upper + 16) * 9 + 5 * (32 + lower), 5)

\* DeviceConfig.DecodeTemp: min(upper + 16, 30) in Celsius; in Fahrenheit 61
\* when upper <= 0, else min(int((upper + 16) * 9 / 5 + 32 + lower), 86).
DecodeTemp(self, upper, lower) ==
    IF self.temp_units = "CELSIUS"
    THEN 2 * (IF upper + 16 < 30 THEN upper + 16 ELSE 30)
    ELSE IF upper <= 0
    THEN 2 * 61
    ELSE LET temp_f == TruncDiv((upper + 16) * 9 + 5 * (32 + lower), 5)
         IN  2 * (IF temp_f < 86 THEN temp_f ELSE 86)

\* An EncodeTemp that subtracts 15 where line 438 subtracts 15.5.
EncodeTempWholeOffset(self, temp) ==
    IF self.temp_units = "CELSIUS"
    THEN TruncDiv(temp, 2) - 16
    ELSE LET val0 == TruncDiv(5 * temp - 590, 18)
             val1 == IF val0 > 0 THEN val0 ELSE 0
         IN  IF val1 < 14 THEN val1 ELSE 14

\* DeviceConfig.EncodeTemp: int(temp) - 16 in Celsius; in Fahrenheit
\* int((temp - 32) / 9 * 5 - 15.5) clamped to 0..14.  With temp = h / 2 the
\* Fahrenheit expression is (5h - 599) / 18.
EncodeTemp(self, temp) ==
    IF self.temp_units = "CELSIUS"
    THEN TruncDiv(temp, 2) - 16
    ELSE LET val0 == TruncDiv(5 * temp - 599, 18)
             val1 == IF val0 > 0 THEN val0 ELSE 0
         IN  IF val1 < 14 THEN val1 ELSE 14

FahrenheitFractionalTemps == {63, 65, 67, 70, 72, 74, 76, 79, 81, 83, 85}

EncodeTempFahrenheitFractionalBit(temp, units) ==
    IF units = "CELSIUS" THEN 0
    ELSE B2I(\E t \in FahrenheitFractionalTemps : temp = 2 * t)

EncodeTempCelciusFractionalBit(temp, units) ==
    IF units = "CELSIUS" THEN B2I(temp - 2 * TruncDiv(temp, 2) = 1)
    ELSE 0

---------------------------------------------------------------------------
(* DeviceConfig.Decode and its helpers.                                    *)

FanSpeeds == <<"AUTO", "LEVEL_1", "LEVEL_2", "LEVEL_3", "LEVEL_4", "LEVEL_5">>

\* The chain with the quiet types tested before turbo.
DecodedFanStateQuietFirst(self, turbo, quiet_type, fan_speed) ==
    IF quiet_type = 1 THEN "AUTO_QUIET"
    ELSE IF quiet_type = 2 THEN "QUIET"
    ELSE IF turbo THEN "TURBO"
    ELSE IF quiet_type = 3 THEN self.fan_state
    ELSE IF fan_speed >= 0 /\ fan_speed <= 5 THEN FanSpeeds[fan_speed + 1]
    ELSE "UNKNOWN"

\* The if/elif chain of DecodeFanState: quiet_type 3 only prints and leaves
\* fan_state as it was.
DecodedFanState(self, turbo, quiet_type, fan_speed) ==
    IF turbo THEN "TURBO"
    ELSE IF quiet_type = 1 THEN "AUTO_QUIET"
    ELSE IF quiet_type = 2 THEN "QUIET"
    ELSE IF quiet_type = 3 THEN self.fan_state
    ELSE IF fan_speed >= 0 /\ fan_speed <= 5 THEN FanSpeeds[fan_speed + 1]
    ELSE "UNKNOWN"

\* X-Fan writes that leave the flag of the other mode as it was.
DecodedXFanNoClear(self, b) ==
    IF self.mode = "COOL" \/ self.mode = "DRY"
    THEN [x_fan |-> GetBit(b[10], 3), x_fan_for_heat |-> self.x_fan_for_heat]
    ELSE IF self.mode = "HEAT"
    THEN [x_fan |-> self.x_fan, x_fan_for_heat |-> GetBit(b[10], 3)]
    ELSE [x_fan |-> self.x_fan, x_fan_for_heat |-> self.x_fan_for_heat]

\* The two mode-gated writes of the X-Fan bit; other modes write neither.
DecodedXFan(self, b) ==
    IF self.mode = "COOL" \/ self.mode = "DRY"
    THEN [x_fan |-> GetBit(b[10], 3), x_fan_for_heat |-> FALSE]
    ELSE IF self.mode = "HEAT"
    THEN [x_fan |-> FALSE, x_fan_for_heat |-> GetBit(b[10], 3)]
    ELSE [x_fan |-> self.x_fan, x_fan_for_heat |-> self.x_fan_for_heat]

DecodeFanState(self, b) ==
    LET xf         == DecodedXFan(self, b)
        turbo      == GetBit(b[10], 0)
        quiet_type == GetBits(b[20], 2, 2)
        fan_speed  == GetBits(b[22], 0, 3)
    IN  [self EXCEPT
            !.x_fan = xf.x_fan,
            !.x_fan_for_heat = xf.x_fan_for_heat,
            !.turbo = turbo,
            !.quiet_type = quiet_type,
            !.intake_exhaust = EnumOf(ValveState, GetBits(b[11], 4, 2)),
            !.fan_speed = fan_speed,
            !.fan_state = DecodedFanState(self, turbo, quiet_type, fan_speed)]

DecodeCustomSleepCurve(self, b) ==
    [self EXCEPT !.custom_sleep_curve =
        [i \in 0..7 |->
            LET byte == b[IF i < 2 THEN 21 ELSE 24 + ((i - 2) \div 2)]
            IN  IF i % 2 = 0
                THEN DecodeTemp(self, Shr(byte, 4), 0)
                ELSE DecodeTemp(self, BitAnd(byte, 15), 0)]]

\* Lines 507-530: everything assigned before the first air-direction enum.
DecodeHead(self, b) ==
    LET s1 == [self EXCEPT
                  !.is_on = GetBit(b[8], 7),
                  !.mode = EnumOf(DeviceMode, GetBits(b[8], 4, 3)),
                  !.mode_mystery_bit_3 = GetBit(b[8], 3),
                  !.mode_mystery_bit_2 = GetBit(b[8], 2),
                  !.fan_speed_low_res = GetBits(b[8], 0, 2),
                  !.timer_on_off_enable = GetBit(b[9], 3),
                  !.temp_units = IF GetBits(b[11], 7, 1) # 0 THEN "FAHRENHEIT"
                                 ELSE "CELSIUS"]
        temp_upper == GetBits(b[9], 4, 4)
        temp_lower == GetBits(b[11], 6, 1)
        t0 == DecodeTemp(s1, temp_upper, temp_lower)
        s2 == [s1 EXCEPT !.temp =
                  IF s1.temp_units = "CELSIUS" /\ GetBit(b[14], 3) THEN t0 + 1 ELSE t0]
        s3 == DecodeFanState(s2, b)
    IN  [s3 EXCEPT !.purify = GetBit(b[10], 2), !.light = GetBit(b[10], 1)]

\* Lines 539-594: everything assigned after the humidify enum.
DecodeTail(self, b) ==
    LET s1 == [self EXCEPT
                  !.heat_assist = GetBit(b[15], 7),
                  !.minutes_until_on = BitOr(Shl(BitAnd(b[17], 112), 4), b[16]),
                  !.minutes_until_off =
                      BitOr(Shl(BitAnd(b[18], 127), 4), BitAnd(b[17], 15)),
                  !.timer_remote_flag = GetBit(b[17], 7),
                  !.timer_on_enable = GetBit(b[19], 5),
                  !.timer_off_enable = GetBit(b[19], 4),
                  !.sleep_curve_type =
                      IF GetBit(b[20], 7) THEN "SIESTA"
                      ELSE EnumOf(SleepCurveType,
                                  BitOr(Shr(BitAnd(b[8], 8), 2), Shr(BitAnd(b[20], 16), 4)))]
        s2 == DecodeCustomSleepCurve(s1, b)
    IN  [s2 EXCEPT
            !.remote_temp_val = b[28],
            !.clock = BitOr(Shl(BitAnd(b[29], 127), 8), b[30]),
            !.sleep_curve_clock_invalid = GetBit(b[31], 7),
            !.sleep_curve_clock = BitOr(Shl(BitAnd(b[31], 127), 8), b[32]),
            !.timer_on_use_clock = GetBits(b[33], 6, 2),
            !.timer_off_use_clock = GetBits(b[33], 4, 2),
            !.off_time = BitOr(Shl(BitAnd(b[33], 7), 8), b[34]),
            !.on_time = BitOr(Shl(BitAnd(b[35], 7), 8), b[36]),
            !.day_of_week = GetBits(b[35], 5, 3),
            !.day_of_week_on_mask = b[37],
            !.day_of_week_off_mask = b[38],
            !.regional_swing_avoid_people = GetBit(b[39], 2),
            !.regional_swing_position = IF GetBit(b[39], 1) THEN 256 ELSE b[40],
            !.noise_control_enable = GetBit(b[42], 0),
            !.noise_control_cooling = b[47],
            !.noise_control_heating = b[48],
            !.eco_mode = GetBit(b[49], 0),
            !.valid = TRUE]

\* A length test that lets a buffer one byte short through.
TooSmallDecodeLen == 51 - 1

MinDecodeLen == 51

\* Decode(buf): the snapshot it leaves and what the call does: returns False
\* on a short buffer with nothing assigned, raises ValueError out of an Enum
\* constructor with the assignments made so far kept, or returns True.
Decode(self, b) ==
    IF BufLen(b) < MinDecodeLen
    THEN [cfg |-> self, ret |-> "False"]
    ELSE LET s1 == DecodeHead(self, b)
             v  == GetBits(b[12], 4, 4)
             h  == GetBits(b[12], 0, 4)
             hu == GetBits(b[14], 4, 3)
         IN  IF ~EnumHas(VerticalAirDirection, v)
             THEN [cfg |-> s1, ret |-> "ValueError"]
             ELSE LET s2 == [s1 EXCEPT !.vertical_air_direction =
                                           EnumOf(VerticalAirDirection, v)]
                  IN  IF ~EnumHas(HorizontalAirDirection, h)
                      THEN [cfg |-> s2, ret |-> "ValueError"]
                      ELSE LET s3 == [s2 EXCEPT
                                   !.horizontal_air_direction =
                                       EnumOf(HorizontalAirDirection, h),
                                   !.temp_display =
                                       EnumOf(TempDisplay, GetBits(b[13], 4, 2)),
                                   !.use_remote_temp_sensor = GetBit(b[13], 6)]
                           IN  IF ~EnumHas(HumidifyType, hu)
                               THEN [cfg |-> s3, ret |-> "ValueError"]
                               ELSE [cfg |-> DecodeTail(
                                                [s3 EXCEPT !.humidify_type =
                                                    EnumOf(HumidifyType, hu)], b),
                                     ret |-> "True"]

---------------------------------------------------------------------------
(* Checksums.                                                              *)

RECURSIVE SumBytes(_, _, _)
\* buf[lo] + ... + buf[hi - 1], the loop "for i in range(lo, hi)".
SumBytes(b, lo, hi) == IF lo >= hi THEN 0 ELSE b[lo] + SumBytes(b, lo + 1, hi)

\* A checksum whose loop stops one byte early, range(2, length - 2).
CalcChecksumShortLoop(b) ==
    IF BufLen(b) < 4 THEN "None"
    ELSE BitAnd(SumBytes(b, 2, BufLen(b) - 2), 255)

\* DeviceSocket.CalcChecksum: None for a buffer of fewer than 4 bytes.
CalcChecksum(b) ==
    IF BufLen(b) < 4 THEN "None"
    ELSE BitAnd(SumBytes(b, 2, BufLen(b) - 1), 255)

\* DeviceSocket.SetChecksum (the caller's buffer has at least 4 bytes).
SocketSetChecksum(b) == [b EXCEPT ![BufLen(b) - 1] = CalcChecksum(b)]

\* A SetChecksum without the "& 0xff".
SetChecksumNoMask(b) == [b EXCEPT ![BufLen(b) - 1] = SumBytes(b, 2, BufLen(b) - 1)]

\* DeviceConfig.SetChecksum.
SetChecksum(b) ==
    [b EXCEPT ![BufLen(b) - 1] = BitAnd(SumBytes(b, 2, BufLen(b) - 1), 255)]

---------------------------------------------------------------------------
(* DeviceConfig.Encode.  Objects live in a heap (reference -> record) so   *)
(* that what Copy returns, a fresh object or an alias, decides whether the *)
(* normalisation steps touch the caller's snapshot.                        *)

SelfRef == 1

CopyRef == 2

\* A Copy that hands back the object itself instead of a deep copy.
CopyAlias(heap, ref) == [heap |-> heap, ref |-> ref]

\* Copy: copy.deepcopy(self), a new object holding equal values.
Copy(heap, ref) == [heap |-> heap @@ (CopyRef :> heap[ref]), ref |-> CopyRef]

\* The threshold chain with ">" where lines 664-679 have ">=".
FanSpeedForNoiseLevelStrict(noise_level) ==
    IF noise_level > 38 THEN 5
    ELSE IF noise_level > 36 THEN 4
    ELSE IF noise_level > 33 THEN 3
    ELSE IF noise_level > 31 THEN 2
    ELSE IF noise_level > 29 THEN 1
    ELSE 0

\* FanSpeedForNoiseLevel: the first threshold the level reaches.
FanSpeedForNoiseLevel(noise_level) ==
    IF noise_level >= 38 THEN 5
    ELSE IF noise_level >= 36 THEN 4
    ELSE IF noise_level >= 33 THEN 3
    ELSE IF noise_level >= 31 THEN 2
    ELSE IF noise_level >= 29 THEN 1
    ELSE 0

\* An off-clearing that forgets purify.
ClearWhenOffKeepsPurify(c) ==
    IF ~c.is_on
    THEN [c EXCEPT
             !.intake_exhaust = "NONE",
             !.quiet_type = 0,
             !.sleep_curve_type = "NONE",
             !.humidify_type = "NONE"]
    ELSE c

\* Lines 719-724: "If not on, disable a handful of secondary things".
ClearWhenOff(c) ==
    IF ~c.is_on
    THEN [c EXCEPT
             !.intake_exhaust = "NONE",
             !.quiet_type = 0,
             !.sleep_curve_type = "NONE",
             !.humidify_type = "NONE",
             !.purify = FALSE]
    ELSE c

VanillaFanStates == {"AUTO", "LEVEL_1", "LEVEL_2", "LEVEL_3", "LEVEL_4", "LEVEL_5"}

\* A fan_state step without the "cfg.turbo = False" of line 729.
ApplyFanStateKeepsTurbo(c) ==
    IF c.fan_state # "None"
    THEN [c EXCEPT
             !.turbo = (c.turbo \/ c.fan_state = "TURBO"),
             !.quiet_type = IF c.fan_state = "QUIET" THEN 2
                            ELSE IF c.fan_state = "AUTO_QUIET" THEN 1
                            ELSE 0,
             !.fan_speed = IF c.fan_state \in VanillaFanStates
                           THEN FanState[c.fan_state]
                           ELSE 0]
    ELSE c

\* Lines 728-750: a fan_state that is not None sets turbo, quiet_type, fan_speed.
ApplyFanState(c) ==
    IF c.fan_state # "None"
    THEN [c EXCEPT
             !.turbo = (c.fan_state = "TURBO"),
             !.quiet_type = IF c.fan_state = "QUIET" THEN 2
                            ELSE IF c.fan_state = "AUTO_QUIET" THEN 1
                            ELSE 0,
             !.fan_speed = IF c.fan_state \in VanillaFanStates
                           THEN FanState[c.fan_state]
                           ELSE 0]
    ELSE c

\* Lines 755-762: the noise levels are read from self, the rest from cfg.
ApplyNoiseControl(c, self) ==
    IF c.noise_control_enable
    THEN IF c.mode = "HEAT"
         THEN [c EXCEPT !.fan_speed = FanSpeedForNoiseLevel(self.noise_control_heating),
                        !.turbo = FALSE]
         ELSE IF c.mode = "COOL"
         THEN [c EXCEPT !.fan_speed = FanSpeedForNoiseLevel(self.noise_control_cooling),
                        !.turbo = FALSE]
         ELSE c
    ELSE c

CommandLen == 40

CommandType == 1

SyncByte == 126

IntentBase == 173

\* An intent byte that sets the timer latch bit whatever the flag says.
IntentByteAlwaysLatch(self, update_on_off_timers) ==
    LET a == BitOr(IntentBase, 2)
    IN  IF self.use_remote_temp_sensor THEN BitOr(a, 64) ELSE a

\* Lines 703-716: out[4], from the latch flag and self.use_remote_temp_sensor.
IntentByte(self, update_on_off_timers) ==
    LET a == IF update_on_off_timers THEN BitOr(IntentBase, 2) ELSE IntentBase
    IN  IF self.use_remote_temp_sensor THEN BitOr(a, 64) ELSE a

\* One byte of two sleep-curve temperatures (lines 812, 820-822).
CurveByte(c, i) ==
    BitOr(Shl(EncodeTemp(c, c.custom_sleep_curve[i]), 4),
          EncodeTemp(c, c.custom_sleep_curve[i + 1]))

\* Lines 686-690 and 767-853: the bytes laid down from the normalised copy.
Layout(c, intent) ==
    LET o5  == BitOr(BitOr(BitOr(Shr(c.fan_speed + 1, 1), Shl(B2I(c.is_on), 7)),
                           Shl(DeviceMode[c.mode], 4)),
                     BitOr(Shl(BitAnd(SleepCurveType[c.sleep_curve_type], 2), 2),
                           Shl(B2I(c.mode_mystery_bit_2), 2)))
        o6  == BitOr(Shl(EncodeTemp(c, c.temp), 4), Shl(B2I(c.timer_on_off_enable), 3))
        o7a == BitOr(BitOr(Shl(B2I(c.purify), 2), Shl(B2I(c.light), 1)), B2I(c.turbo))
        o7b == IF c.mode = "COOL" \/ c.mode = "DRY"
               THEN BitOr(o7a, Shl(B2I(c.x_fan), 3)) ELSE o7a
        o7  == IF c.mode = "HEAT"
               THEN BitOr(o7b, Shl(B2I(c.x_fan_for_heat), 3)) ELSE o7b
        o8  == BitOr(BitOr(BitOr(
                   Shl(EncodeTempFahrenheitFractionalBit(c.temp, c.temp_units), 6),
                   Shl(B2I(c.temp_units = "FAHRENHEIT"), 7)),
                   Shl(ValveState[c.intake_exhaust], 4)), 2)
        o9  == BitOr(Shl(VerticalAirDirection[c.vertical_air_direction], 4),
                     HorizontalAirDirection[c.horizontal_air_direction])
        o10 == BitOr(Shl(TempDisplay[c.temp_display], 4),
                     Shl(B2I(c.use_remote_temp_sensor), 6))
        o11 == BitOr(Shl(EncodeTempCelciusFractionalBit(c.temp, c.temp_units), 3),
                     Shl(HumidifyType[c.humidify_type], 4))
        o12 == IF c.mode = "HEAT" THEN Shl(B2I(c.heat_assist), 7) ELSE 0
        o14 == BitOr(BitOr(Shr(BitAnd(c.minutes_until_on, 1792), 4),
                           BitAnd(c.minutes_until_off, 15)),
                     Shl(B2I(c.timer_remote_flag), 7))
        o16 == BitOr(Shl(B2I(c.timer_on_enable), 5), Shl(B2I(c.timer_off_enable), 4))
        o17 == IF c.sleep_curve_type = "SIESTA"
               THEN BitOr(Shl(c.quiet_type, 2), SleepCurveType[c.sleep_curve_type])
               ELSE BitOr(Shl(c.quiet_type, 2),
                          Shl(BitAnd(SleepCurveType[c.sleep_curve_type], 1), 4))
        o30 == BitOr(BitOr(Shl(c.timer_on_use_clock, 6), Shl(c.timer_off_use_clock, 4)),
                     Shr(c.off_time, 8))
        o32 == BitOr(Shl(c.day_of_week, 5), Shr(c.on_time, 8))
        o36a == Shl(B2I(c.regional_swing_avoid_people), 1)
        o36 == IF c.regional_swing_position = 256 THEN BitOr(o36a, 1) ELSE o36a
        o37 == IF c.regional_swing_position = 256 THEN 0 ELSE c.regional_swing_position
    IN  [i \in 0..(CommandLen - 1) |->
            CASE i = 0  -> SyncByte
              [] i = 1  -> SyncByte
              [] i = 2  -> CommandLen - 3
              [] i = 3  -> CommandType
              [] i = 4  -> intent
              [] i = 5  -> o5
              [] i = 6  -> o6
              [] i = 7  -> o7
              [] i = 8  -> o8
              [] i = 9  -> o9
              [] i = 10 -> o10
              [] i = 11 -> o11
              [] i = 12 -> o12
              [] i = 13 -> BitAnd(c.minutes_until_on, 255)
              [] i = 14 -> o14
              [] i = 15 -> Shr(BitAnd(c.minutes_until_off, 2032), 4)
              [] i = 16 -> o16
              [] i = 17 -> o17
              [] i = 18 -> CurveByte(c, 0)
              [] i = 19 -> c.fan_speed
              [] i = 21 -> CurveByte(c, 2)
              [] i = 22 -> CurveByte(c, 4)
              [] i = 23 -> CurveByte(c, 6)
              [] i = 25 -> c.remote_temp_val
              [] i = 26 -> Shr(c.clock, 8)
              [] i = 27 -> BitAnd(c.clock, 255)
              [] i = 28 -> Shr(c.sleep_curve_clock, 8)
              [] i = 29 -> BitAnd(c.sleep_curve_clock, 255)
              [] i = 30 -> o30
              [] i = 31 -> BitAnd(c.off_time, 255)
              [] i = 32 -> o32
              [] i = 33 -> BitAnd(c.on_time, 255)
              [] i = 34 -> c.day_of_week_on_mask
              [] i = 35 -> c.day_of_week_off_mask
              [] i = 36 -> o36
              [] i = 37 -> o37
              [] OTHER  -> 0]

\* Lines 685-857 of Encode, past the test of valid: the caller's snapshot as
\* the call leaves it, what it returns and the frame.
EncodeBody(self, update_on_off_timers) ==
    LET cp     == Copy((SelfRef :> self), SelfRef)
        r      == cp.ref
        intent == IntentByte(cp.heap[SelfRef], update_on_off_timers)
        h1     == [cp.heap EXCEPT ![r] = ApplyFanState(ClearWhenOff(cp.heap[r]))]
        h2     == [h1 EXCEPT ![r] = ApplyNoiseControl(h1[r], h1[SelfRef])]
    IN  [self |-> h2[SelfRef],
         ret  |-> "frame",
         out  |-> SetChecksum(Layout(h2[r], intent))]

\* An Encode without the test of valid at lines 682-683.
EncodeUnchecked(self, update_on_off_timers) == EncodeBody(self, update_on_off_timers)

\* Encode(update_on_off_timers): None for a snapshot that is not valid.
Encode(self, update_on_off_timers) ==
    IF ~self.valid
    THEN [self |-> self, ret |-> "None", out |-> NoBuf]
    ELSE EncodeBody(self, update_on_off_timers)

\* EncodeRemoteTempUpdate: a zeroed command frame with the remote-sensor
\* intent bit and the remote temperature.
EncodeRemoteTempUpdate(self) ==
    IF ~self.valid
    THEN [self |-> self, ret |-> "None", out |-> NoBuf]
    ELSE LET cp == Copy((SelfRef :> self), SelfRef)
             r  == cp.ref
             o  == [i \in 0..(CommandLen - 1) |->
                       CASE i = 0  -> SyncByte
                         [] i = 1  -> SyncByte
                         [] i = 2  -> CommandLen - 3
                         [] i = 3  -> CommandType
                         [] i = 4  -> IF cp.heap[SelfRef].use_remote_temp_sensor
                                      THEN 64 ELSE 0
                         [] i = 25 -> cp.heap[r].remote_temp_val
                         [] OTHER  -> 0]
         IN  [self |-> cp.heap[SelfRef], ret |-> "frame", out |-> SetChecksum(o)]

---------------------------------------------------------------------------
(* The frame layer of DeviceSocket.                                        *)

QueryLen == 5

QueryType == 2

MaxBodyLen == 60

\* SendQuery: the 5-byte frame 7E 7E 02 02 and its checksum.
QueryFrame ==
    SocketSetChecksum([i \in 0..(QueryLen - 1) |->
                          CASE i = 0 -> SyncByte
                            [] i = 1 -> SyncByte
                            [] i = 2 -> 2
                            [] i = 3 -> QueryType
                            [] OTHER -> 0])

Min(a, b) == IF a < b THEN a ELSE b

\* Read on a socket holding the bytes p: recv(3), the header test (whose
\* "or" stops at the first byte that differs), recv(header[2]), the checksum
\* test.  Indexing past a short header raises IndexError; the message of a
\* checksum mismatch formats expected_cs with :02x, which raises TypeError
\* when CalcChecksum returned None.
Read(p) ==
    LET hlen == Min(3, BufLen(p))
    IN  IF hlen = 0 THEN [ret |-> "IndexError", packet |-> NoBuf]
        ELSE IF p[0] # SyncByte THEN [ret |-> "None", packet |-> NoBuf]
        ELSE IF hlen = 1 THEN [ret |-> "IndexError", packet |-> NoBuf]
        ELSE IF p[1] # SyncByte THEN [ret |-> "None", packet |-> NoBuf]
        ELSE IF hlen = 2 THEN [ret |-> "IndexError", packet |-> NoBuf]
        ELSE IF p[2] > MaxBodyLen THEN [ret |-> "None", packet |-> NoBuf]
        ELSE LET n           == Min(3 + p[2], BufLen(p))
                 packet      == [i \in 0..(n - 1) |-> p[i]]
                 expected_cs == CalcChecksum(packet)
                 packet_cs   == packet[n - 1]
             IN  IF n < 4 THEN [ret |-> "TypeError", packet |-> NoBuf]
                 ELSE IF packet_cs # expected_cs THEN [ret |-> "None", packet |-> NoBuf]
                 ELSE [ret |-> "packet", packet |-> packet]

---------------------------------------------------------------------------
(* The caller of the codec: the assignments of the polling loop's test     *)
(* command (lines 920-936).  72 F is 144 half degrees.                     *)

TestConfig(c) ==
    [c EXCEPT
        !.fan_state = "LEVEL_5",
        !.mode = "HEAT",
        !.temp_units = "FAHRENHEIT",
        !.is_on = TRUE,
        !.temp = 2 * 72,
        !.temp_display = "INDOOR",
        !.vertical_air_direction = "CENTER_DOWN",
        !.timer_remote_flag = FALSE,
        !.timer_on_off_enable = TRUE,
        !.timer_off_enable = TRUE,
        !.timer_on_enable = FALSE,
        !.minutes_until_on = 0,
        !.minutes_until_off = 10]

---------------------------------------------------------------------------
(* The frames the device sends.  A status frame is sync, length, type 0x31 *)
(* and a checksum around a body that is zero except for the bytes given in *)
(* ov (byte index :> value).                                               *)

StatusType == 49

StatusFrame(len, ov) ==
    SocketSetChecksum([i \in 0..(len - 1) |->
                          CASE i = 0 -> SyncByte
                            [] i = 1 -> SyncByte
                            [] i = 2 -> len - 3
                            [] i = 3 -> StatusType
                            [] i \in DOMAIN ov -> ov[i]
                            [] OTHER -> 0])

\* turbo x quiet_type x fan_speed, the unit on in COOL (byte 8 = 0x90).
FanFrames ==
    {StatusFrame(MinDecodeLen, (8 :> 128 + 16) @@ (10 :> t) @@ (20 :> 4 * q) @@ (22 :> sp)) :
        t \in {0, 1}, q \in 0..3, sp \in {0, 1, 5, 6, 7}}

\* is_on and mode (byte 8) x the X-Fan bit (bit 3 of byte 10).
ModeFrames ==
    {StatusFrame(MinDecodeLen, (8 :> b8) @@ (10 :> x)) :
        b8 \in {128, 144, 160, 176, 192, 16, 64, 240}, x \in {0, 8}}

NoiseLevels == <<28, 29, 30, 31, 32, 33, 35, 36, 37, 38, 255>>

\* Noise control enabled, in HEAT, COOL and AUTO, with and without turbo.
NoiseFrames ==
    {StatusFrame(MinDecodeLen,
                 (8 :> b8) @@ (10 :> t) @@ (42 :> 1)
                     @@ (48 :> NoiseLevels[k]) @@ (47 :> NoiseLevels[12 - k])) :
        b8 \in {192, 144, 128}, t \in {0, 1}, k \in 1..11}

\* The fields Encode clears for a unit that is off, with the unit off and on:
\* purify (byte 10 bit 2), intake_exhaust (byte 11), humidify_type (byte 14),
\* quiet_type and the sleep curve bits (byte 20, byte 8 bit 3).
OffFrames ==
    {StatusFrame(MinDecodeLen,
                 (8 :> b8) @@ (10 :> 4 * x) @@ (11 :> 32 * x) @@ (14 :> 96 * x) @@ (20 :> b20)) :
        b8 \in {16, 24, 144}, x \in {0, 1}, b20 \in {0, 24, 136}}

\* The two passthrough bits of byte 8 and the remote sensor (bytes 13, 28).
PassthroughFrames ==
    {StatusFrame(MinDecodeLen, (8 :> b8) @@ (13 :> rs) @@ (28 :> 25)) :
        b8 \in {0, 4, 8, 12, 128, 132, 136, 140}, rs \in {0, 64}}

\* Air directions and humidify codes, among them codes no enum member has.
EnumFrames ==
    {StatusFrame(MinDecodeLen, (8 :> 128 + 16) @@ (12 :> b12) @@ (14 :> b14)) :
        b12 \in {0, 17, 102, 112, 7}, b14 \in {0, 112}}

\* Frames shorter than Decode accepts, and the longest frame Read delivers.
ShortFrames ==
    {StatusFrame(n, (8 :> 192) @@ (10 :> 1)) : n \in {MinDecodeLen - 1, 12}}

LongFrames == {StatusFrame(MaxBodyLen + 3, (8 :> 192) @@ (10 :> 9) @@ (48 :> 38))}

StatusFrames ==
    FanFrames \cup ModeFrames \cup NoiseFrames \cup OffFrames \cup PassthroughFrames
        \cup EnumFrames \cup ShortFrames \cup LongFrames

---------------------------------------------------------------------------
(* The codec driven by a caller: any order of Decode, Encode,              *)
(* EncodeRemoteTempUpdate, the test command's assignments and SendQuery.   *)
(* An exception is not caught anywhere in client.py: it ends the program.  *)

Raised == {"ValueError", "TypeError", "IndexError"}

Init ==
    /\ cfg = InitConfig
    /\ buf = NoBuf
    /\ op = "init"
    /\ latch = TRUE
    /\ ret = "none"
    /\ out = NoBuf
    /\ echo = InitConfig
    /\ pkt = NoBuf
    /\ orig = NoBuf
    /\ arg = <<>>
    /\ res = 0
    /\ pc = "query"
    /\ sent = FALSE
    /\ ncmd = 0

DoDecode(frames) ==
    /\ ret \notin Raised
    /\ \E f \in frames : \E d \in {Decode(cfg, f)} :
          /\ cfg' = d.cfg
          /\ ret' = d.ret
          /\ buf' = f
    /\ op' = "Decode"
    /\ out' = NoBuf
    /\ latch' = TRUE
    /\ echo' = InitConfig
    /\ UNCHANGED <<pkt, orig, arg, res, pc, sent, ncmd>>

DoEncode ==
    /\ ret \notin Raised
    /\ \E update_on_off_timers \in BOOLEAN :
          \E e \in {Encode(cfg, update_on_off_timers)} :
              /\ cfg' = e.self
              /\ ret' = e.ret
              /\ out' = e.out
              /\ latch' = update_on_off_timers
    /\ op' = "Encode"
    /\ UNCHANGED <<buf, echo, pkt, orig, arg, res, pc, sent, ncmd>>

DoEncodeRemoteTempUpdate ==
    /\ ret \notin Raised
    /\ \E e \in {EncodeRemoteTempUpdate(cfg)} :
           /\ cfg' = e.self
           /\ ret' = e.ret
           /\ out' = e.out
    /\ op' = "EncodeRemoteTempUpdate"
    /\ latch' = TRUE
    /\ UNCHANGED <<buf, echo, pkt, orig, arg, res, pc, sent, ncmd>>

DoTestConfig ==
    /\ ret \notin Raised
    /\ cfg.valid
    /\ cfg' = TestConfig(cfg)
    /\ op' = "TestConfig"
    /\ ret' = "none"
    /\ out' = NoBuf
    /\ latch' = TRUE
    /\ UNCHANGED <<buf, echo, pkt, orig, arg, res, pc, sent, ncmd>>

DoSendQuery ==
    /\ ret \notin Raised
    /\ out' = QueryFrame
    /\ op' = "SendQuery"
    /\ ret' = "none"
    /\ latch' = TRUE
    /\ UNCHANGED <<cfg, buf, echo, pkt, orig, arg, res, pc, sent, ncmd>>

Next ==
    \/ DoDecode(StatusFrames)
    \/ DoEncode
    \/ DoEncodeRemoteTempUpdate
    \/ DoTestConfig
    \/ DoSendQuery

Spec == Init /\ [][Next]_vars

---------------------------------------------------------------------------
(* The round trip: a command frame decoded back into a fresh DeviceConfig. *)
(* Command byte i is the status byte i + 3 (Encode's out[5] is laid out as *)
(* Decode's buf[8], and so on to out[38] and buf[41]).                     *)

\* Setpoints: every upper nibble, in Celsius with and without the half
\* degree bit (byte 14 bit 3), in Fahrenheit with and without the lower bit
\* (byte 11 bit 6), and the bit of the other unit set.
TempFrames ==
    {StatusFrame(MinDecodeLen,
                 (8 :> 128 + 16) @@ (9 :> 16 * upper) @@ (11 :> t[1]) @@ (14 :> t[2])) :
        upper \in 0..15,
        t \in {<<0, 0>>, <<0, 8>>, <<128, 0>>, <<128 + 64, 0>>}}
    \cup
    {StatusFrame(MinDecodeLen,
                 (8 :> 128 + 16) @@ (9 :> 16 * upper) @@ (11 :> t[1]) @@ (14 :> t[2])) :
        upper \in {0, 7, 15},
        t \in {<<64, 8>>, <<128 + 64, 8>>}}

\* Air directions: byte 12 holds vertical (bits 7-4) and horizontal (bits 3-0).
DirectionFrames ==
    {StatusFrame(MinDecodeLen, (8 :> 128 + 16) @@ (12 :> 16 * d[1] + d[2])) :
        d \in {<<i, i>> : i \in 0..6} \cup {<<1, 6>>, <<6, 1>>}}

\* Countdown timers (bytes 16-18) and the clock schedule (bytes 29-38).
TimerFrames ==
    {StatusFrame(MinDecodeLen,
                 (8 :> 128 + 16) @@ (9 :> 8) @@ (16 :> t[1]) @@ (17 :> t[2]) @@ (18 :> t[3])) :
        t \in {<<0, 0, 0>>, <<255, 127, 127>>, <<1, 16, 0>>, <<0, 15, 0>>,
               <<0, 0, 1>>, <<52, 82, 1>>, <<10, 128, 0>>}}

ClockFrames ==
    {StatusFrame(MinDecodeLen,
                 (8 :> 128 + 16) @@ (29 :> c[1]) @@ (30 :> c[2]) @@ (33 :> c[3])
                     @@ (34 :> c[4]) @@ (35 :> c[5]) @@ (36 :> c[6])
                     @@ (37 :> c[7]) @@ (38 :> c[8])) :
        c \in {<<5, 159, 5, 160, 4, 101, 254, 2>>,
               <<0, 1, 0, 1, 128, 0, 1, 128>>,
               <<127, 255, 7, 255, 7, 255, 255, 255>>,
               <<255, 255, 255, 255, 255, 255, 0, 0>>}}

\* Regional swing: the flag byte 39 and the position byte 40.
SwingFrames ==
    {StatusFrame(MinDecodeLen, (8 :> 128 + 16) @@ (39 :> f) @@ (40 :> pos)) :
        f \in {0, 2, 4, 6}, pos \in {0, 1, 194, 255}}

RoundTripFrames ==
    TempFrames \cup DirectionFrames \cup TimerFrames \cup ClockFrames \cup SwingFrames
        \cup FanFrames \cup ModeFrames
        \cup {StatusFrame(MinDecodeLen, (8 :> 128 + 64) @@ (42 :> 1) @@ (48 :> 33))}

\* The status frame whose bytes 8..41 are the command bytes 5..38.
Relocate(o) == StatusFrame(MinDecodeLen, [j \in 8..41 |-> o[j - 3]])

DoLoopback ==
    /\ op = "Encode"
    /\ ret = "frame"
    /\ \E d \in {Decode(InitConfig, Relocate(out))} :
          /\ echo' = d.cfg
          /\ ret' = d.ret
    /\ op' = "Loopback"
    /\ UNCHANGED <<cfg, buf, latch, out, pkt, orig, arg, res, pc, sent, ncmd>>

NextRT ==
    \/ DoDecode(RoundTripFrames)
    \/ DoEncode
    \/ DoLoopback

SpecRT == Init /\ [][NextRT]_vars

---------------------------------------------------------------------------
(* The socket: a frame arrives, possibly with one byte changed on the way, *)
(* and Read validates it.                                                  *)

WireFrames ==
    {QueryFrame,
     StatusFrame(MinDecodeLen, (8 :> 128 + 16) @@ (10 :> 1) @@ (22 :> 5) @@ (48 :> 38)),
     Encode(TestConfig(Decode(InitConfig, StatusFrame(MinDecodeLen, (8 :> 128 + 20))).cfg),
            TRUE).out}

DoArrive ==
    /\ ret \notin Raised
    /\ \E f \in WireFrames :
          /\ pkt' = f
          /\ orig' = f
    /\ op' = "Arrive"
    /\ ret' = "none"
    /\ buf' = NoBuf
    /\ UNCHANGED <<cfg, latch, out, echo, arg, res, pc, sent, ncmd>>

DoCorrupt ==
    /\ op = "Arrive"
    /\ \E i \in DOMAIN pkt : \E v \in 0..255 :
          /\ v # pkt[i]
          /\ pkt' = [pkt EXCEPT ![i] = v]
    /\ op' = "Corrupt"
    /\ UNCHANGED <<cfg, buf, latch, ret, out, echo, orig, arg, res, pc, sent, ncmd>>

DoRead ==
    /\ op \in {"Arrive", "Corrupt"}
    /\ \E r \in {Read(pkt)} :
          /\ ret' = r.ret
          /\ buf' = r.packet
    /\ op' = "Read"
    /\ UNCHANGED <<cfg, latch, out, echo, pkt, orig, arg, res, pc, sent, ncmd>>

NextFrame ==
    \/ DoArrive
    \/ DoCorrupt
    \/ DoRead

SpecFrame == Init /\ [][NextFrame]_vars

---------------------------------------------------------------------------
(* The temperature helpers called on their own, as Decode and Encode call  *)
(* them: on a DeviceConfig whose temp_units is set.                        *)

\* Largest magnitude, in half degrees, of a temperature given to EncodeTemp.
MaxTempInput == 250

DoDecodeTemp ==
    /\ \E units \in {"CELSIUS", "FAHRENHEIT"}, upper \in 0..15, lower \in 0..1 :
          /\ arg' = <<units, upper, lower>>
          /\ res' = DecodeTemp([InitConfig EXCEPT !.temp_units = units], upper, lower)
    /\ op' = "DecodeTemp"
    /\ UNCHANGED <<cfg, buf, latch, ret, out, echo, pkt, orig, pc, sent, ncmd>>

DoEncodeTemp ==
    /\ \E units \in {"CELSIUS", "FAHRENHEIT"}, temp \in (-MaxTempInput)..MaxTempInput :
          /\ arg' = <<units, temp>>
          /\ res' = EncodeTemp([InitConfig EXCEPT !.temp_units = units], temp)
    /\ op' = "EncodeTemp"
    /\ UNCHANGED <<cfg, buf, latch, ret, out, echo, pkt, orig, pc, sent, ncmd>>

NextTemp ==
    \/ DoDecodeTemp
    \/ DoEncodeTemp

SpecTemp == Init /\ [][NextTemp]_vars

---------------------------------------------------------------------------
(* The polling loop (lines 888-939): send a query, drain the frames that   *)
(* are available, encode, and once the snapshot is valid send the test     *)
(* command.  Each Read is handed the bytes of one arriving frame; bytes of *)
(* a frame that Read rejected before consuming them are dropped.           *)

AltStatusType == 50

\* A frame of any type, wrapped like StatusFrame.
TypedFrame(type, len, ov) ==
    SocketSetChecksum([i \in 0..(len - 1) |->
                          CASE i = 0 -> SyncByte
                            [] i = 1 -> SyncByte
                            [] i = 2 -> len - 3
                            [] i = 3 -> type
                            [] i \in DOMAIN ov -> ov[i]
                            [] OTHER -> 0])

\* A frame with length byte n whose last byte is not its checksum; with
\* n = 0 the frame is the bare header 7E 7E 00.
BadChecksumFrame(n) ==
    LET f == [i \in 0..(n + 2) |->
                 CASE i = 0 -> SyncByte
                   [] i = 1 -> SyncByte
                   [] i = 2 -> n
                   [] i = 3 -> StatusType
                   [] OTHER -> 0]
    IN  IF n = 0 THEN f
        ELSE [f EXCEPT ![n + 2] = (SumBytes(f, 2, n + 2) + 1) % 256]

GoodLoopFrames ==
    {StatusFrame(MinDecodeLen, (8 :> 128 + 16) @@ (22 :> 2)),
     StatusFrame(MinDecodeLen, (8 :> 64) @@ (10 :> 1) @@ (13 :> 64)),
     TypedFrame(AltStatusType, MinDecodeLen, (8 :> 128 + 32) @@ (20 :> 8)),
     StatusFrame(12, (8 :> 128)),
     TypedFrame(CommandType, CommandLen, (5 :> 128)),
     TypedFrame(StatusType + 2, MinDecodeLen, (8 :> 128 + 64))}

BadLoopFrames ==
    {[StatusFrame(MinDecodeLen, (8 :> 128 + 64)) EXCEPT ![0] = 127],
     [StatusFrame(MinDecodeLen, (8 :> 128 + 64)) EXCEPT ![1] = 0],
     [StatusFrame(MinDecodeLen, (8 :> 128 + 64)) EXCEPT ![2] = MaxBodyLen + 1],
     [StatusFrame(MinDecodeLen, (8 :> 128 + 64)) EXCEPT ![2] = 255],
     [StatusFrame(MinDecodeLen, (8 :> 128 + 64)) EXCEPT ![8] = 128]}
    \cup {BadChecksumFrame(n) : n \in 0..MaxBodyLen}

LoopFrames == GoodLoopFrames \cup BadLoopFrames

\* Lines 900-913: one pass of the inner loop over the arrived bytes p.  What
\* it leaves in cfg, how it ends ("None": Read rejected the frame; "unknown":
\* another frame type; the result of Decode; or an exception), and the
\* buffer Decode was given.
Receive(self, p) ==
    LET r == Read(p)
    IN  IF r.ret \in Raised \/ r.ret = "None"
        THEN [cfg |-> self, ret |-> r.ret, buf |-> NoBuf]
        ELSE IF r.packet[3] = StatusType \/ r.packet[3] = AltStatusType
        THEN LET d == Decode(self, r.packet)
             IN  [cfg |-> d.cfg, ret |-> d.ret, buf |-> r.packet]
        ELSE [cfg |-> self, ret |-> "unknown", buf |-> NoBuf]

\* DeviceSocket.SendConfig: what it leaves in cfg and the frame it writes to
\* the socket (<<>> when Encode returned None).
SendConfig(self) ==
    LET e == Encode(self, TRUE)
    IN  [cfg |-> e.self, wrote |-> IF e.ret = "frame" THEN e.out ELSE NoBuf]

\* A loop tail that never sets the sent flag.
LoopTailForgetsSent(self, was_sent) ==
    LET cmd == Encode(self, TRUE)
    IN  IF cmd.self.valid /\ ~was_sent
        THEN LET s == SendConfig(TestConfig(cmd.self))
             IN  [cfg |-> s.cfg, sent |-> was_sent, wrote |-> s.wrote]
        ELSE [cfg |-> cmd.self, sent |-> was_sent, wrote |-> NoBuf]

\* Lines 915-939: cmd = cfg.Encode() (only dumped), then the test command
\* when the snapshot is valid and none has been sent.
LoopTail(self, was_sent) ==
    LET cmd == Encode(self, TRUE)
    IN  IF cmd.self.valid /\ ~was_sent
        THEN LET s == SendConfig(TestConfig(cmd.self))
             IN  [cfg |-> s.cfg, sent |-> TRUE, wrote |-> s.wrote]
        ELSE [cfg |-> cmd.self, sent |-> was_sent, wrote |-> NoBuf]

\* Most command frames a run is followed for.
MaxCommands == 3

\* Lines 896-897: sleep, then SendQuery.
LoopQuery ==
    /\ pc = "query"
    /\ out' = QueryFrame
    /\ op' = "SendQuery"
    /\ ret' = "none"
    /\ pc' = "poll"
    /\ UNCHANGED <<cfg, buf, latch, echo, pkt, orig, arg, res, sent, ncmd>>

\* Lines 899-913: a frame is available and the inner loop handles it.
LoopReceive ==
    /\ pc = "poll"
    /\ \E f \in LoopFrames : \E r \in {Receive(cfg, f)} :
          /\ pkt' = f
          /\ cfg' = r.cfg
          /\ ret' = r.ret
          /\ buf' = r.buf
          /\ pc' = IF r.ret \in Raised THEN "crashed" ELSE "poll"
    /\ op' = "Receive"
    /\ out' = NoBuf
    /\ UNCHANGED <<latch, echo, orig, arg, res, sent, ncmd>>

\* Lines 915-939: nothing more is available; the rest of the loop body.
LoopSend ==
    /\ pc = "poll"
    /\ ncmd < MaxCommands
    /\ \E t \in {LoopTail(cfg, sent)} :
          /\ cfg' = t.cfg
          /\ sent' = t.sent
          /\ out' = t.wrote
          /\ ncmd' = IF t.wrote # NoBuf THEN ncmd + 1 ELSE ncmd
    /\ op' = "Send"
    /\ ret' = "none"
    /\ pc' = "query"
    /\ UNCHANGED <<buf, latch, echo, pkt, orig, arg, res>>

NextLoop ==
    \/ LoopQuery
    \/ LoopReceive
    \/ LoopSend

SpecLoop == Init /\ [][NextLoop]_vars

---------------------------------------------------------------------------
(* Properties of the codec, checked under Spec.                            *)

\* C1: a snapshot starts out not valid; only a Decode that returns True makes
\* it valid; Encode and EncodeRemoteTempUpdate on a snapshot that is not valid
\* return None and produce no frame.
C1_ValidOnlyAfterDecode ==
    /\ ~cfg.valid
    /\ [][(~cfg.valid /\ cfg'.valid) => (op' = "Decode" /\ ret' = "True")]_vars
    /\ [][(op' \in {"Encode", "EncodeRemoteTempUpdate"} /\ ~cfg.valid)
              => (ret' = "None" /\ out' = NoBuf /\ ~cfg'.valid)]_vars

\* A refused Decode left the snapshot not valid and the encoder then refused.
C1_Witness ==
    /\ op = "Encode"
    /\ BufLen(buf) > 0
    /\ ~cfg.valid
    /\ ret = "None"

\* C2: Encode leaves the snapshot it is called on unchanged, whatever the
\* normalisation steps do to the copy they work on.
C2_EncodeKeepsSnapshot == [][op' = "Encode" => cfg' = cfg]_vars

\* A frame was encoded from a snapshot that is off and still holds the fields
\* the off-clearing step resets in its copy.
C2_Witness ==
    /\ op = "Encode"
    /\ ret = "frame"
    /\ ~cfg.is_on
    /\ cfg.purify
    /\ cfg.quiet_type # 0
    /\ cfg.humidify_type # "NONE"
    /\ cfg.sleep_curve_type # "NONE"
    /\ cfg.intake_exhaust # "NONE"

\* C3: Decode of a buffer of fewer than 51 bytes returns False and changes no
\* field of the snapshot, valid included.
C3_ShortBufferRefused ==
    [][(op' = "Decode" /\ BufLen(buf') < 51) => (ret' = "False" /\ cfg' = cfg)]_vars

\* A 50-byte buffer was refused by a snapshot that an earlier frame made valid.
C3_Witness ==
    /\ op = "Decode"
    /\ BufLen(buf) = 50
    /\ ret = "False"
    /\ cfg.valid
    /\ cfg.mode # "HEAT"

\* C4: Decode of a buffer of at least 51 bytes returns True and leaves the
\* snapshot valid, whatever codes the buffer holds.
C4_LongBufferAlwaysDecodes ==
    (op = "Decode" /\ BufLen(buf) >= 51) => (ret = "True" /\ cfg.valid)

\* C5: every frame sent (command, remote temperature update, query) starts
\* with 7E 7E, carries its length minus 3 in byte 2, its message type in
\* byte 3, the low byte of the sum of bytes 2..last-1 in its last byte, and
\* passes the validation of Read.
C5_EmittedFramesWellFormed ==
    out # NoBuf =>
        LET n == BufLen(out)
        IN  /\ n = (IF op = "SendQuery" THEN 5 ELSE 40)
            /\ out[0] = 126
            /\ out[1] = 126
            /\ out[2] = n - 3
            /\ out[3] = (IF op = "SendQuery" THEN 2 ELSE 1)
            /\ out[n - 1] = SumBytes(out, 2, n - 1) % 256
            /\ Read(out).ret = "packet"
            /\ Read(out).packet = out

\* A command frame whose byte sum exceeds one byte.
C5_Witness ==
    /\ op = "Encode"
    /\ ret = "frame"
    /\ SumBytes(out, 2, BufLen(out) - 1) > 255

\* C6: for a correctly checksummed frame, a change of any single byte after
\* the type byte and before the checksum byte, the checksum byte left as it
\* was, makes Read reject the frame: it returns None and delivers nothing.
C6_PayloadChangeDetected ==
    LET n == BufLen(orig)
    IN  (/\ op = "Read"
         /\ n >= 4
         /\ orig[n - 1] = SumBytes(orig, 2, n - 1) % 256
         /\ \E i \in 4..(n - 2) :
               /\ pkt[i] # orig[i]
               /\ \A j \in (DOMAIN orig) \ {i} : pkt[j] = orig[j])
        => (ret = "None" /\ buf = NoBuf)

\* Read rejected a status frame whose last payload byte was changed.
C6_Witness ==
    /\ op = "Read"
    /\ ret = "None"
    /\ BufLen(orig) = 51
    /\ pkt[49] # orig[49]
    /\ \A j \in (DOMAIN orig) \ {49} : pkt[j] = orig[j]

\* The ranges the fields of a snapshot are documented to have.
InDocumentedRanges(c) ==
    /\ c.temp_units \in {"CELSIUS", "FAHRENHEIT"}
    /\ c.temp_units = "FAHRENHEIT" => c.temp \in {2 * f : f \in 61..86}
    /\ c.temp_units = "CELSIUS" => c.temp \in (2 * 16)..(2 * 30)
    /\ c.fan_speed \in 0..5
    /\ c.quiet_type \in 0..3
    /\ c.minutes_until_on \in 0..2047
    /\ c.minutes_until_off \in 0..2047
    /\ c.clock \in 0..32767
    /\ c.on_time \in 0..2047
    /\ c.off_time \in 0..2047
    /\ c.day_of_week \in 0..7
    /\ c.day_of_week_on_mask \in 0..255
    /\ c.day_of_week_off_mask \in 0..255

\* A snapshot the round trip is stated for, decoded back.
RoundTripCase ==
    /\ op = "Loopback"
    /\ cfg.valid
    /\ cfg.is_on
    /\ ~cfg.noise_control_enable
    /\ InDocumentedRanges(cfg)

\* The fields other than fan_state that the round trip reproduces.
RoundTripFields ==
    /\ ret = "True"
    /\ echo.is_on = cfg.is_on
    /\ echo.mode = cfg.mode
    /\ echo.temp_units = cfg.temp_units
    /\ echo.temp = cfg.temp
    /\ echo.horizontal_air_direction = cfg.horizontal_air_direction
    /\ echo.vertical_air_direction = cfg.vertical_air_direction
    /\ echo.minutes_until_on = cfg.minutes_until_on
    /\ echo.minutes_until_off = cfg.minutes_until_off
    /\ echo.clock = cfg.clock
    /\ echo.on_time = cfg.on_time
    /\ echo.off_time = cfg.off_time
    /\ echo.day_of_week = cfg.day_of_week
    /\ echo.day_of_week_on_mask = cfg.day_of_week_on_mask
    /\ echo.day_of_week_off_mask = cfg.day_of_week_off_mask

\* The fan states a command frame can carry.
EncodableFanStates ==
    {"AUTO", "LEVEL_1", "LEVEL_2", "LEVEL_3", "LEVEL_4", "LEVEL_5",
     "TURBO", "QUIET", "AUTO_QUIET"}

C8_SwingSentinelRoundTrip ==
    (op = "Loopback" /\ cfg.valid /\ cfg.regional_swing_position \in 0..256) =>
        /\ IF cfg.regional_swing_position = 256
           THEN out[36] % 2 = 1 /\ out[37] = 0
           ELSE out[36] % 2 = 0 /\ out[37] = cfg.regional_swing_position
        /\ echo.regional_swing_position = cfg.regional_swing_position
        /\ echo.regional_swing_avoid_people = cfg.regional_swing_avoid_people

\* The fan speed the thresholds 38, 36, 33, 31, 29 give a noise level.
NoiseStep(level) ==
    CASE level >= 38 -> 5
      [] level \in 36..37 -> 4
      [] level \in 33..35 -> 3
      [] level \in 31..32 -> 2
      [] level \in 29..30 -> 1
      [] OTHER -> 0

\* The fan speed and turbo bit the fan_state step alone gives a snapshot.
FanStepSpeed(c) ==
    CASE c.fan_state = "None" -> c.fan_speed
      [] c.fan_state = "LEVEL_1" -> 1
      [] c.fan_state = "LEVEL_2" -> 2
      [] c.fan_state = "LEVEL_3" -> 3
      [] c.fan_state = "LEVEL_4" -> 4
      [] c.fan_state = "LEVEL_5" -> 5
      [] OTHER -> 0

FanStepTurbo(c) ==
    IF c.fan_state = "None" THEN c.turbo ELSE c.fan_state = "TURBO"

\* C9: with noise control enabled, a frame encoded in HEAT (COOL) carries the
\* fan speed of the heating (cooling) noise level and a clear turbo bit,
\* whatever fan_state is; otherwise the fan speed and turbo bit are those of
\* the fan_state step.
C9_NoiseControlDecidesFanSpeed ==
    (op = "Encode" /\ ret = "frame") =>
        LET speed == out[19] % 8
            turbo == out[7] % 2 = 1
        IN  IF cfg.noise_control_enable /\ cfg.mode = "HEAT"
            THEN speed = NoiseStep(cfg.noise_control_heating) /\ ~turbo
            ELSE IF cfg.noise_control_enable /\ cfg.mode = "COOL"
            THEN speed = NoiseStep(cfg.noise_control_cooling) /\ ~turbo
            ELSE speed = FanStepSpeed(cfg) /\ turbo = FanStepTurbo(cfg)

\* Noise control overrode a TURBO fan_state in COOL with a level on a threshold.
C9_Witness ==
    /\ op = "Encode"
    /\ ret = "frame"
    /\ cfg.noise_control_enable
    /\ cfg.mode = "COOL"
    /\ cfg.fan_state = "TURBO"
    /\ cfg.noise_control_cooling = 36
    /\ out[19] % 8 = 4
    /\ out[7] % 2 = 0

\* C10: after Decode of a status frame, fan_state is TURBO if the turbo bit is
\* set; else AUTO_QUIET for quiet_type 1 and QUIET for quiet_type 2; else, for
\* quiet_type 0, the state named by fan_speed 0..5 and UNKNOWN for 6 and 7.
C10_FanStatePriority ==
    (op = "Decode" /\ BufLen(buf) >= 51) =>
        LET turbo      == buf[10] % 2 = 1
            quiet_type == (buf[20] \div 4) % 4
            fan_speed  == buf[22] % 8
        IN  /\ turbo => cfg.fan_state = "TURBO"
            /\ (~turbo /\ quiet_type = 1) => cfg.fan_state = "AUTO_QUIET"
            /\ (~turbo /\ quiet_type = 2) => cfg.fan_state = "QUIET"
            /\ (~turbo /\ quiet_type = 0) =>
                   cfg.fan_state =
                       CASE fan_speed = 0 -> "AUTO"
                         [] fan_speed = 1 -> "LEVEL_1"
                         [] fan_speed = 2 -> "LEVEL_2"
                         [] fan_speed = 3 -> "LEVEL_3"
                         [] fan_speed = 4 -> "LEVEL_4"
                         [] fan_speed = 5 -> "LEVEL_5"
                         [] OTHER -> "UNKNOWN"

\* A frame with the turbo bit, quiet_type 2 and fan_speed 5 decoded as TURBO.
C10_Witness ==
    /\ op = "Decode"
    /\ ret = "True"
    /\ buf[10] % 2 = 1
    /\ (buf[20] \div 4) % 4 = 2
    /\ buf[22] % 8 = 5
    /\ cfg.fan_state = "TURBO"

\* C11: in Fahrenheit EncodeTemp returns a value in 0..14 for every input,
\* and DecodeTemp returns at most 86 and exactly 61 when upper <= 0; in
\* Celsius DecodeTemp returns min(upper + 16, 30).  (res is in half degrees.)
C11_TemperatureClamps ==
    /\ (op = "EncodeTemp" /\ arg[1] = "FAHRENHEIT") => res \in 0..14
    /\ (op = "DecodeTemp" /\ arg[1] = "FAHRENHEIT") =>
           /\ res <= 2 * 86
           /\ arg[2] <= 0 => res = 2 * 61
    /\ (op = "DecodeTemp" /\ arg[1] = "CELSIUS") =>
           res = 2 * (IF arg[2] + 16 < 30 THEN arg[2] + 16 ELSE 30)

\* The largest Fahrenheit nibble with the lower bit set came back as 86.
C11_Witness ==
    /\ op = "DecodeTemp"
    /\ arg = <<"FAHRENHEIT", 15, 1>>
    /\ res = 2 * 86

\* C12: for every valid snapshot, on or off and with any sleep_curve_type,
\* bit 2 of the mode byte (out[5]) of the frame Encode emits equals
\* mode_mystery_bit_2 and bit 3 equals mode_mystery_bit_3.
C12_PassthroughBitsVerbatim ==
    (op = "Encode" /\ ret = "frame") =>
        /\ ((out[5] \div 4) % 2 = 1) = cfg.mode_mystery_bit_2
        /\ ((out[5] \div 8) % 2 = 1) = cfg.mode_mystery_bit_3

\* C13 as stated: a frame encoded from a valid snapshot that is off carries
\* intake_exhaust = none (bits 5-4 of out[8]), quiet_type = 0 (bits 3-2 of
\* out[17]), sleep_curve_type = none (bit 3 of out[5], bits 4 and 7 of
\* out[17]), humidify_type = none (bits 6-4 of out[11]) and purify = 0 (bit 2
\* of out[7]), whatever those fields and fan_state are in the snapshot.
C13_OffClearsAsStated ==
    (op = "Encode" /\ ret = "frame" /\ ~cfg.is_on) =>
        /\ (out[8] \div 16) % 4 = 0
        /\ (out[17] \div 4) % 4 = 0
        /\ (out[5] \div 8) % 2 = 0
        /\ (out[17] \div 16) % 2 = 0
        /\ out[17] \div 128 = 0
        /\ (out[11] \div 16) % 8 = 0
        /\ (out[7] \div 4) % 2 = 0

\* C13, amended: such a frame carries intake_exhaust = none, sleep_curve_type
\* = none, humidify_type = none and purify = 0 whatever the snapshot holds;
\* its quiet_type is 0 unless fan_state is QUIET or AUTO_QUIET, for which the
\* fan_state step, run after the clearing, writes 2 or 1.
C13_OffClearsDependentFields ==
    (op = "Encode" /\ ret = "frame" /\ ~cfg.is_on) =>
        /\ (out[8] \div 16) % 4 = 0
        /\ (out[17] \div 4) % 4 =
               (CASE cfg.fan_state = "QUIET" -> 2
                  [] cfg.fan_state = "AUTO_QUIET" -> 1
                  [] OTHER -> 0)
        /\ (out[5] \div 8) % 2 = 0
        /\ (out[17] \div 16) % 2 = 0
        /\ out[17] \div 128 = 0
        /\ (out[11] \div 16) % 8 = 0
        /\ (out[7] \div 4) % 2 = 0

\* An off snapshot holding every field of the cluster, with fan_state QUIET.
C13_Witness ==
    /\ op = "Encode"
    /\ ret = "frame"
    /\ ~cfg.is_on
    /\ cfg.purify
    /\ cfg.intake_exhaust # "NONE"
    /\ cfg.humidify_type # "NONE"
    /\ cfg.sleep_curve_type # "NONE"
    /\ cfg.fan_state = "QUIET"
    /\ (out[17] \div 4) % 4 = 2
    /\ (out[7] \div 4) % 2 = 0

\* C14: with the device on and noise control disabled, the emitted turbo
\* bit (bit 0 of out[7]), quiet_type (bits 3-2 of out[17]) and fan_speed byte
\* (out[19]) are fixed by a present fan_state alone: TURBO (1,0,0),
\* AUTO_QUIET (0,1,0), QUIET (0,2,0), AUTO and LEVEL_n (0,0,ordinal); with
\* fan_state None they are the snapshot's raw turbo, quiet_type, fan_speed.
C14_FanStateOverridesTriplet ==
    (op = "Encode" /\ ret = "frame" /\ cfg.is_on /\ ~cfg.noise_control_enable) =>
        <<out[7] % 2, (out[17] \div 4) % 4, out[19]>> =
            CASE cfg.fan_state = "None" ->
                     <<IF cfg.turbo THEN 1 ELSE 0, cfg.quiet_type, cfg.fan_speed>>
              [] cfg.fan_state = "TURBO" -> <<1, 0, 0>>
              [] cfg.fan_state = "AUTO_QUIET" -> <<0, 1, 0>>
              [] cfg.fan_state = "QUIET" -> <<0, 2, 0>>
              [] cfg.fan_state = "AUTO" -> <<0, 0, 0>>
              [] cfg.fan_state = "LEVEL_1" -> <<0, 0, 1>>
              [] cfg.fan_state = "LEVEL_2" -> <<0, 0, 2>>
              [] cfg.fan_state = "LEVEL_3" -> <<0, 0, 3>>
              [] cfg.fan_state = "LEVEL_4" -> <<0, 0, 4>>
              [] cfg.fan_state = "LEVEL_5" -> <<0, 0, 5>>
              [] OTHER -> <<0, 0, 0>>

\* fan_state LEVEL_5 overrode a raw triplet that says turbo.
C14_Witness ==
    /\ op = "Encode"
    /\ ret = "frame"
    /\ cfg.is_on
    /\ ~cfg.noise_control_enable
    /\ cfg.fan_state = "LEVEL_5"
    /\ cfg.turbo
    /\ <<out[7] % 2, (out[17] \div 4) % 4, out[19]>> = <<0, 0, 5>>

\* C15: the intent byte out[4] of a frame Encode emits is 0xAD with bit 1 set
\* iff update_on_off_timers and bit 6 set iff use_remote_temp_sensor, and its
\* bit 6 equals the remote-sensor enable bit, bit 6 of out[10].
C15_IntentByte ==
    (op = "Encode" /\ ret = "frame") =>
        /\ out[4] = 173 + (IF latch THEN 2 ELSE 0)
                        + (IF cfg.use_remote_temp_sensor THEN 64 ELSE 0)
        /\ (out[4] \div 64) % 2 = (out[10] \div 64) % 2

\* A frame encoded without the timer latch for a snapshot using the remote
\* sensor.
C15_Witness ==
    /\ op = "Encode"
    /\ ret = "frame"
    /\ ~latch
    /\ cfg.use_remote_temp_sensor
    /\ out[4] = 173 + 64
    /\ (out[10] \div 64) % 2 = 1

\* C16: after a successful Decode of a status frame with the turbo bit clear
\* and quiet_type = 3, fan_state is None, whatever frames were decoded before.
C16_QuietType3LeavesFanStateUnset ==
    (/\ op = "Decode"
     /\ BufLen(buf) >= 51
     /\ buf[10] % 2 = 0
     /\ (buf[20] \div 4) % 4 = 3)
        => (ret = "True" /\ cfg.fan_state = "None")

\* C17: x_fan and x_fan_for_heat are never both set; a Decode in COOL or DRY
\* sets x_fan from bit 3 of byte 10 and clears x_fan_for_heat, a Decode in
\* HEAT sets x_fan_for_heat from that bit and clears x_fan, and a Decode in
\* any other mode leaves both as they were.
C17_XFanExclusive ==
    /\ [](~(cfg.x_fan /\ cfg.x_fan_for_heat))
    /\ [][(op' = "Decode" /\ BufLen(buf') >= 51) =>
            LET mode == (buf'[8] \div 16) % 8
                bit  == (buf'[10] \div 8) % 2 = 1
            IN  <<cfg'.x_fan, cfg'.x_fan_for_heat>> =
                    CASE mode \in {1, 2} -> <<bit, FALSE>>
                      [] mode = 4 -> <<FALSE, bit>>
                      [] OTHER -> <<cfg.x_fan, cfg.x_fan_for_heat>>]_vars

\* A Decode in FAN mode kept the x_fan an earlier COOL or DRY frame had set.
C17_Witness ==
    /\ op = "Decode"
    /\ ret = "True"
    /\ cfg.mode = "FAN"
    /\ (buf[10] \div 8) % 2 = 0
    /\ cfg.x_fan
    /\ ~cfg.x_fan_for_heat

\* A frame that fails the framing or checksum validation: a bad sync byte, a
\* length byte above 60, or a last byte that is not the checksum of the rest
\* (a bare header with length byte 0 has no checksum byte at all).
FailsValidation(p) ==
    \/ p[0] # 126
    \/ p[1] # 126
    \/ p[2] > 60
    \/ BufLen(p) < 4
    \/ p[BufLen(p) - 1] # SumBytes(p, 2, BufLen(p) - 1) % 256

\* C18: in the polling loop a received frame that fails framing or checksum
\* validation, for every length byte 0..60, leaves every field of the
\* snapshot unchanged, is not given to Decode, and the loop goes on to the
\* next frame; a validated frame of a type other than 0x31 and 0x32 does not
\* change the snapshot either.
C18_InvalidFrameSkipped ==
    [][(op' = "Receive" /\ (FailsValidation(pkt') \/ pkt'[3] \notin {49, 50}))
           => (cfg' = cfg /\ buf' = NoBuf /\ pc' = "poll")]_vars

\* C19: no command frame (type 0x01) is written to the socket before a
\* status frame has been decoded successfully, only query frames are written
\* while the snapshot is not valid, and the test command is written at most
\* once in a run, however many status frames arrive afterwards.
C19_CommandOnlyAfterDecodeAndOnce ==
    /\ [](ncmd <= 1)
    /\ [](~cfg.valid => (ncmd = 0 /\ ~sent /\ (out = NoBuf \/ out = QueryFrame)))
    /\ [][(~cfg.valid /\ cfg'.valid) => (op' = "Receive" /\ ret' = "True")]_vars
    /\ [][(out' # NoBuf /\ out'[3] = 1)
              => (cfg.valid /\ ~sent /\ sent' /\ ncmd = 0 /\ ncmd' = 1)]_vars
    /\ [][ncmd' # ncmd => (out' # NoBuf /\ out'[3] = 1)]_vars

\* The test command has been written, a later loop pass wrote none, and
\* another status frame has been decoded since.
C19_Witness ==
    /\ ncmd = 1
    /\ sent
    /\ op = "Receive"
    /\ ret = "True"
    /\ cfg.mode # "HEAT"
    /\ pc = "poll"

===========================================================================
